---- MODULE Spec2Model ----
(***************************************************************************)
(* Model of crates/collab/src/rate_limiter.rs: the per-user token-bucket   *)
(* rate limiter with its DashMap cache of Arc<Mutex<RateBucket>>, the lazy *)
(* hydration from the database and the detached save of the bucket state.  *)
(*                                                                         *)
(* Time is counted in ticks.  chrono's Duration has nanosecond resolution; *)
(* the model keeps a sub-millisecond resolution of TicksPerMs ticks per    *)
(* millisecond, so that Duration::num_milliseconds() truncates.            *)
(*                                                                         *)
(* With it, crates/collab/src/llm/token.rs: LlmTokenClaims::create and     *)
(* validate, the signed credentials of the users; and RateBucket run on    *)
(* its own for kinds of any capacity and refill duration.                  *)
(***************************************************************************)
EXTENDS Integers, Sequences, FiniteSets, Bags, TLC

\* ------------------------------------------------------------------ bounds
\* Calls of check made in a behaviour, and in a behaviour checked for liveness.
MaxCalls == 3
MaxLiveCalls == 2
\* The last instant of the clock, in ticks.
MaxNow == 4
\* Calls in flight at once, and users.
NumProcs == 2
NumUsers == 2
\* Credentials created, and advances of the signer's clock, in a behaviour.
MaxMinted == 1
MaxAdvances == 4
\* A bucket run on its own: its capacity, its refill duration and the last
\* instant, in ticks, and the calls of allow made on it.
MaxCapacity == 2
MaxRefillDuration == 6
MaxBucketNow == 6
MaxBucketCalls == 5

TicksPerMs == 2

Procs == 1..NumProcs
Users == 1..NumUsers
Kinds == {"A", "B"}

\* ------------------------------------------------- the RateLimit trait
\* The limiter is generic in the kind; the model runs it on two kinds.  A is
\* the RateLimitA of the tests (capacity 2, one token per interval, a window of
\* two intervals) with an interval of one millisecond; B holds a single token
\* and refills it in one millisecond.
\* capacity(): tokens of a full bucket of the kind.
Capacity(k) == IF k = "A" THEN 2 ELSE 1

\* refill_duration(): the refill window of the kind, in ticks.
RefillDuration(k) == IF k = "A" THEN 4 ELSE 2

\* db_name(): the name the kind's buckets are stored under.
DbName(k) == IF k = "A" THEN "rate-limit-a" ELSE "rate-limit-b"

\* type_id(): the key of the kind in the cache.
TypeId(k) == k

\* ------------------------------------------------- chrono
\* Duration::num_milliseconds(): whole milliseconds of a non-negative duration.
NumMilliseconds(d) == d \div TicksPerMs

\* Duration / i32 for a non-negative duration.
DurationDiv(d, n) == d \div n

Min(a, b) == IF a < b THEN a ELSE b

\* ------------------------------------------------- RateBucket
\* RateBucket::new
RateBucketNew(capacity, refill_duration, now) ==
    [capacity |-> capacity,
     token_count |-> capacity,
     refill_time_per_token |-> DurationDiv(refill_duration, capacity),
     last_refill |-> now]

\* refill without the cap at capacity.
RefillUncapped(b, now) ==
    LET elapsed == now - b.last_refill IN
    IF elapsed >= b.refill_time_per_token
    THEN LET new_tokens == NumMilliseconds(elapsed)
                             \div NumMilliseconds(b.refill_time_per_token) IN
         [b EXCEPT !.token_count = b.token_count + new_tokens,
                   !.last_refill = now]
    ELSE b

\* RateBucket::refill
Refill(b, now) ==
    LET elapsed == now - b.last_refill IN
    IF elapsed >= b.refill_time_per_token
    THEN LET new_tokens == NumMilliseconds(elapsed)
                             \div NumMilliseconds(b.refill_time_per_token) IN
         [b EXCEPT !.token_count = Min(b.token_count + new_tokens, b.capacity),
                   !.last_refill = now]
    ELSE b

\* refill panics: an integer division by zero, when refill_time_per_token is
\* below one millisecond.
RefillPanics(b, now) ==
    /\ now - b.last_refill >= b.refill_time_per_token
    /\ NumMilliseconds(b.refill_time_per_token) = 0

\* allow without the decrement.
AllowBucketNoDecrement(b, now) == Refill(b, now)

\* RateBucket::allow: the bucket after the call.
AllowBucket(b, now) ==
    LET r == Refill(b, now) IN
    IF r.token_count > 0 THEN [r EXCEPT !.token_count = r.token_count - 1] ELSE r

\* RateBucket::allow: the value returned.
AllowResult(b, now) == Refill(b, now).token_count > 0

\* load_bucket ignoring the saved token_count.
SavedToBucketFull(k, saved) ==
    [capacity |-> Capacity(k),
     refill_time_per_token |-> RefillDuration(k),
     token_count |-> Capacity(k),
     last_refill |-> saved.last_refill]

\* The closure of load_bucket: the bucket built from a saved record.
SavedToBucket(k, saved) ==
    [capacity |-> Capacity(k),
     refill_time_per_token |-> RefillDuration(k),
     token_count |-> saved.token_count,
     last_refill |-> saved.last_refill]

\* ------------------------------------------------- keys
\* bucket_key of check_internal.
BucketKey(u, k) == <<u, TypeId(k)>>

\* Every kind saved under one name.
DbKeyOneName(u, k) == <<u, DbName("A")>>

\* The key of a record in the database.
DbKey(u, k) == <<u, DbName(k)>>

Keys == {BucketKey(u, k) : u \in Users, k \in Kinds}
DbKeys == {DbKey(u, k) : u \in Users, k \in Kinds}

\* None of get_rate_bucket: no record is saved for the key.
NoRecord == [token_count |-> -1, last_refill |-> -1]

\* Executor::spawn_detached: the task joins those that have not run yet.
SpawnDetached(tasks, t) == tasks (+) SetToBag({t})

\* The result of allow dropped.
CheckResultAlwaysOk(allowed) == "ok"

\* Result<()> of check_internal.
CheckResult(allowed) == IF allowed THEN "ok" ELSE "rate limit exceeded"

\* ------------------------------------------------- llm/token.rs
\* Utc::now() is counted in ticks of half a second, so that
\* DateTime::timestamp() truncates.
TicksPerSec == 2

\* LLM_TOKEN_LIFETIME, in seconds.
LLM_TOKEN_LIFETIME == 3600

\* DEFAULT_MAX_MONTHLY_SPEND of crate::llm, in cents.
DEFAULT_MAX_MONTHLY_SPEND == 1000

\* The leeway of jsonwebtoken's Validation::default(), in seconds.
Leeway == 60

\* config.llm_api_secret: None, or the secret provisioned.
NoSecret == "none"
Secrets == {"k1", "k2"}

\* billing_preferences: None.
NoPreferences == -1

\* DateTime::timestamp(): whole seconds of an instant.
Timestamp(t) == t \div TicksPerSec

\* The HMAC of a payload under a secret: equal only for the same secret and
\* the same payload.
Hmac(secret, payload) == <<secret, payload>>

\* jsonwebtoken::encode(&Header::default(), &claims, &EncodingKey::from_secret(..))
Encode(claims, secret) ==
    [form |-> "jwt", payload |-> claims, signature |-> Hmac(secret, claims)]

\* A string that is not a JWT.
Garbage == [form |-> "garbage"]

\* max_monthly_spend_in_cents ignoring the billing preferences.
MaxMonthlySpendDefault(billing_preferences) == DEFAULT_MAX_MONTHLY_SPEND

\* billing_preferences.map_or(DEFAULT_MAX_MONTHLY_SPEND.0, |preferences| ..):
\* the ceilings are amounts of cents, which the cast to u32 keeps.
MaxMonthlySpend(billing_preferences) ==
    IF billing_preferences = NoPreferences
    THEN DEFAULT_MAX_MONTHLY_SPEND
    ELSE billing_preferences

\* The claims of create with exp = iat.
NewClaimsNoLifetime(in, now, jti) ==
    [iat |-> Timestamp(now),
     exp |-> Timestamp(now),
     jti |-> jti,
     user_id |-> in.user_id,
     github_user_login |-> in.github_user_login,
     is_staff |-> in.is_staff,
     has_llm_closed_beta_feature_flag |-> in.has_llm_closed_beta_feature_flag,
     has_llm_subscription |-> in.has_llm_subscription,
     max_monthly_spend_in_cents |-> MaxMonthlySpend(in.billing_preferences),
     plan |-> in.plan]

\* The LlmTokenClaims create builds at the instant now.
NewClaims(in, now, jti) ==
    [iat |-> Timestamp(now),
     exp |-> Timestamp(now + LLM_TOKEN_LIFETIME * TicksPerSec),
     jti |-> jti,
     user_id |-> in.user_id,
     github_user_login |-> in.github_user_login,
     is_staff |-> in.is_staff,
     has_llm_closed_beta_feature_flag |-> in.has_llm_closed_beta_feature_flag,
     has_llm_subscription |-> in.has_llm_subscription,
     max_monthly_spend_in_cents |-> MaxMonthlySpend(in.billing_preferences),
     plan |-> in.plan]

\* LlmTokenClaims::create
Create(in, secret, now, jti) ==
    IF secret = NoSecret
    THEN [ok |-> FALSE, error |-> "no LLM API secret"]
    ELSE [ok |-> TRUE, token |-> Encode(NewClaims(in, now, jti), secret)]

\* jsonwebtoken::decode::<LlmTokenClaims>(token, &DecodingKey::from_secret(..),
\* &Validation::default()): the signature is verified, then exp is checked
\* against the current timestamp with the default leeway.
Decode(token, secret, now) ==
    IF token.form # "jwt" THEN [ok |-> FALSE, kind |-> "InvalidToken"]
    ELSE IF token.signature # Hmac(secret, token.payload)
    THEN [ok |-> FALSE, kind |-> "InvalidSignature"]
    ELSE IF token.payload.exp < Timestamp(now) - Leeway
    THEN [ok |-> FALSE, kind |-> "ExpiredSignature"]
    ELSE [ok |-> TRUE, claims |-> token.payload]

\* Every error of decode returned as JwtError.
DecodeErrorAllJwt(kind) == [error |-> "JwtError", kind |-> kind]

\* The Err arm of validate.
DecodeError(kind) ==
    IF kind = "ExpiredSignature"
    THEN [error |-> "Expired", kind |-> kind]
    ELSE [error |-> "JwtError", kind |-> kind]

\* validate decoding with an empty secret when none is provisioned.
ValidateUnchecked(token, secret, now) ==
    LET r == Decode(token, secret, now) IN
    [decoded |-> TRUE,
     result |-> IF r.ok THEN [error |-> "", claims |-> r.claims]
                ELSE DecodeError(r.kind)]

\* LlmTokenClaims::validate: the result, and whether decode was called.
Validate(token, secret, now) ==
    IF secret = NoSecret
    THEN [decoded |-> FALSE,
          result |-> [error |-> "Other", kind |-> "no LLM API secret"]]
    ELSE LET r == Decode(token, secret, now) IN
         [decoded |-> TRUE,
          result |-> IF r.ok THEN [error |-> "", claims |-> r.claims]
                     ELSE DecodeError(r.kind)]

VARIABLES
    clock,      \* Utc::now()
    db,         \* the rate_buckets table: DbKeys -> record or NoRecord
    saves,      \* the detached save tasks that have not run yet
    buckets,    \* RateLimiter.buckets: Keys -> index into cells[key], 0 when absent
    cells,      \* per key, the Arc<Mutex<RateBucket>> this limiter allocated for it:
                \* the bucket, the owner of its lock (0: free) and, as history,
                \* whether RateBucket::new or load_bucket made it
    pc,         \* where each check_internal call stands
    args,       \* its user_id, kind and now
    local,      \* its locals: the bucket it holds, what load_bucket gave it
    calls,      \* number of check_internal calls made so far
    log,        \* history: per key, the calls of this limiter in the order they
                \* took the lock: now, the bucket used, the result returned and
                \* the token_count left
    overlap,    \* history: per key, whether two calls for the key ran concurrently
    prev,       \* history: per key, what the previous limiter left behind
    utc,        \* Utc::now() of the credential signer and verifier, in ticks
    secret,     \* config.llm_api_secret
    minted,     \* history: the credentials create returned, each with the
                \* instant and the arguments of the call
    reply,      \* history: the last call of create or validate and its result
    advances,   \* number of times utc advanced
    bucket,     \* a RateBucket on its own, of any capacity and refill duration
    bnow,       \* the now of the last call of allow on it
    bcalls,     \* history: number of calls of allow on it
    ballowed,   \* history: number of these calls that returned true
    panicked    \* a call of allow panicked

lvars == <<clock, db, saves, buckets, cells, pc, args, local, calls,
           log, overlap, prev>>

tvars == <<utc, secret, minted, reply, advances>>

bvars == <<bucket, bnow, bcalls, ballowed, panicked>>

vars == <<lvars, tvars, bvars>>

NoArgs == [user_id |-> 0, kind |-> "A", now |-> 0]
NoLocal == [bucket |-> 0, load |-> "cached", inserted |-> FALSE]
NoPrev == [exhausted |-> FALSE, synced |-> FALSE, now |-> 0]

\* The save tasks for a key that have not run yet.
PendingSaves(d) == {s \in BagToSet(saves) : s.key = d}

\* The calls of a key's log that were made on the bucket the cache holds.
OnCached(key) == SelectSeq(log[key], LAMBDA e : e.cell = buckets[key])

\* What a limiter leaves behind for a key when it is dropped.
Legacy(u, k) ==
    LET key == BucketKey(u, k)
        b == cells[key][buckets[key]].bucket
        on == OnCached(key) IN
    IF buckets[key] = 0 \/ on = <<>> THEN NoPrev
    ELSE [exhausted |-> b.token_count = 0 /\ PendingSaves(DbKey(u, k)) = {},
          synced |-> db[DbKey(u, k)] = [token_count |-> b.token_count,
                                        last_refill |-> b.last_refill],
          now |-> on[Len(on)].now]

KeyOf(p) == BucketKey(args[p].user_id, args[p].kind)

\* No credential was created or validated.
NoReply == [op |-> "none"]

\* The signer and verifier at rest.
TokenIdle ==
    /\ utc = 0
    /\ secret = NoSecret
    /\ minted = {}
    /\ reply = NoReply
    /\ advances = 0

\* RateLimiter::new on an empty database.
LimiterInit ==
    /\ clock = 0
    /\ db = [d \in DbKeys |-> NoRecord]
    /\ saves = EmptyBag
    /\ buckets = [key \in Keys |-> 0]
    /\ cells = [key \in Keys |-> <<>>]
    /\ pc = [p \in Procs |-> "idle"]
    /\ args = [p \in Procs |-> NoArgs]
    /\ local = [p \in Procs |-> NoLocal]
    /\ calls = 0
    /\ log = [key \in Keys |-> <<>>]
    /\ overlap = [key \in Keys |-> FALSE]
    /\ prev = [key \in Keys |-> NoPrev]

\* No bucket is run on its own.
BucketIdle ==
    /\ bucket = RateBucketNew(1, 1, 0)
    /\ bnow = 0
    /\ bcalls = 0
    /\ ballowed = 0
    /\ panicked = FALSE

Init == LimiterInit /\ TokenIdle /\ BucketIdle

\* check: the call is made with now = Utc::now(), the clock having advanced by
\* dt since the last call was made, and looks the key up in the cache
\* (contains_key).  The call takes the first free slot of Procs.
Start(p, u, k, dt) ==
    /\ pc[p] = "idle"
    /\ \A q \in Procs : q < p => pc[q] # "idle"
    /\ clock' = clock + dt
    /\ calls' = calls + 1
    /\ args' = [args EXCEPT ![p] = [user_id |-> u, kind |-> k, now |-> clock + dt]]
    /\ local' = [local EXCEPT ![p] = NoLocal]
    /\ pc' = [pc EXCEPT ![p] =
                IF buckets[BucketKey(u, k)] = 0 THEN "load" ELSE "entry"]
    /\ overlap' = [overlap EXCEPT ![BucketKey(u, k)] =
                     @ \/ \E q \in Procs \ {p} :
                            pc[q] # "idle" /\ KeyOf(q) = BucketKey(u, k)]
    /\ UNCHANGED <<db, saves, buckets, cells, log, prev, tvars, bvars>>

\* load_bucket returns Ok: a saved record becomes a new bucket, inserted in
\* the cache whatever the cache holds by then; no record leaves the cache alone.
LoadOk(p) ==
    /\ pc[p] = "load"
    /\ LET saved == db[DbKey(args[p].user_id, args[p].kind)] IN
       IF saved # NoRecord
       THEN /\ cells' = [cells EXCEPT ![KeyOf(p)] =
                         Append(@, [bucket |-> SavedToBucket(args[p].kind, saved),
                                    owner |-> 0, origin |-> "saved"])]
            /\ buckets' = [buckets EXCEPT ![KeyOf(p)] = Len(cells[KeyOf(p)]) + 1]
            /\ local' = [local EXCEPT ![p].load = "some"]
       ELSE /\ UNCHANGED <<cells, buckets>>
            /\ local' = [local EXCEPT ![p].load = "absent"]
    /\ pc' = [pc EXCEPT ![p] = "entry"]
    /\ UNCHANGED <<clock, db, saves, args, calls, log, overlap, prev, tvars, bvars>>

\* load_bucket returns Err and the call returns it (the ? operator).
LoadErrPropagates(p) ==
    /\ pc[p] = "load"
    /\ log' = [log EXCEPT ![KeyOf(p)] =
                 Append(@, [now |-> args[p].now, cell |-> 0,
                            result |-> "database error", tokens |-> 0])]
    /\ pc' = [pc EXCEPT ![p] = "idle"]
    /\ args' = [args EXCEPT ![p] = NoArgs]
    /\ local' = [local EXCEPT ![p] = NoLocal]
    /\ UNCHANGED <<clock, db, saves, buckets, cells, calls, overlap, prev, tvars, bvars>>

\* load_bucket returns Err: log_err() turns it into None.
LoadErr(p) ==
    /\ pc[p] = "load"
    /\ local' = [local EXCEPT ![p].load = "error"]
    /\ pc' = [pc EXCEPT ![p] = "entry"]
    /\ UNCHANGED <<clock, db, saves, buckets, cells, args, calls,
                   log, overlap, prev, tvars, bvars>>

\* buckets.entry(key).or_insert_with(RateBucket::new(..)).value().clone()
Entry(p) ==
    /\ pc[p] = "entry"
    /\ IF buckets[KeyOf(p)] = 0
       THEN /\ cells' = [cells EXCEPT ![KeyOf(p)] =
                   Append(@, [bucket |-> RateBucketNew(Capacity(args[p].kind),
                                                       RefillDuration(args[p].kind),
                                                       args[p].now),
                              owner |-> 0, origin |-> "new"])]
            /\ buckets' = [buckets EXCEPT ![KeyOf(p)] = Len(cells[KeyOf(p)]) + 1]
            /\ local' = [local EXCEPT ![p].bucket = Len(cells[KeyOf(p)]) + 1,
                                      ![p].inserted = TRUE]
       ELSE /\ UNCHANGED <<cells, buckets>>
            /\ local' = [local EXCEPT ![p].bucket = buckets[KeyOf(p)]]
    /\ pc' = [pc EXCEPT ![p] = "lock"]
    /\ UNCHANGED <<clock, db, saves, args, calls, log, overlap, prev, tvars, bvars>>

\* bucket.lock()
Lock(p) ==
    /\ pc[p] = "lock"
    /\ cells[KeyOf(p)][local[p].bucket].owner = 0
    /\ cells' = [cells EXCEPT ![KeyOf(p)][local[p].bucket].owner = p]
    /\ pc' = [pc EXCEPT ![p] = "allow"]
    /\ UNCHANGED <<clock, db, saves, buckets, args, local, calls,
                   log, overlap, prev, tvars, bvars>>

\* The call returns once no save task is left to run.
ReturnAwaitingSaves(p) ==
    /\ saves = EmptyBag
    /\ pc' = [pc EXCEPT ![p] = "idle"]
    /\ args' = [args EXCEPT ![p] = NoArgs]
    /\ local' = [local EXCEPT ![p] = NoLocal]

\* The call returns: the task spawned is not awaited.
Return(p) ==
    /\ pc' = [pc EXCEPT ![p] = "idle"]
    /\ args' = [args EXCEPT ![p] = NoArgs]
    /\ local' = [local EXCEPT ![p] = NoLocal]

\* The same, the save being spawned only when the call is allowed.
AllowSavingWhenAllowed(p) ==
    /\ pc[p] = "allow"
    /\ LET i == local[p].bucket
           b == cells[KeyOf(p)][i].bucket
           after == AllowBucket(b, args[p].now)
           allowed == AllowResult(b, args[p].now) IN
       /\ cells' = [cells EXCEPT ![KeyOf(p)][i].bucket = after,
                                 ![KeyOf(p)][i].owner = 0]
       /\ saves' = IF allowed
                   THEN SpawnDetached(saves,
                            [key |-> DbKey(args[p].user_id, args[p].kind),
                             token_count |-> after.token_count,
                             last_refill |-> after.last_refill])
                   ELSE saves
       /\ log' = [log EXCEPT ![KeyOf(p)] =
                    Append(@, [now |-> args[p].now, cell |-> i,
                               result |-> CheckResult(allowed),
                               tokens |-> after.token_count])]
    /\ Return(p)
    /\ UNCHANGED <<clock, db, buckets, calls, overlap, prev, tvars, bvars>>

\* lock.allow(now), the capture of token_count and last_refill, drop(lock),
\* executor.spawn_detached(save_rate_bucket(..)) and the return of the result.
Allow(p) ==
    /\ pc[p] = "allow"
    /\ LET i == local[p].bucket
           b == cells[KeyOf(p)][i].bucket
           after == AllowBucket(b, args[p].now)
           allowed == AllowResult(b, args[p].now) IN
       /\ cells' = [cells EXCEPT ![KeyOf(p)][i].bucket = after,
                                 ![KeyOf(p)][i].owner = 0]
       /\ saves' = SpawnDetached(saves,
                       [key |-> DbKey(args[p].user_id, args[p].kind),
                        token_count |-> after.token_count,
                        last_refill |-> after.last_refill])
       /\ log' = [log EXCEPT ![KeyOf(p)] =
                    Append(@, [now |-> args[p].now, cell |-> i,
                               result |-> CheckResult(allowed),
                               tokens |-> after.token_count])]
    /\ Return(p)
    /\ UNCHANGED <<clock, db, buckets, calls, overlap, prev, tvars, bvars>>

\* A detached task runs save_rate_bucket and the database stores the record.
SaveOk(s) ==
    /\ s \in BagToSet(saves)
    /\ saves' = saves (-) SetToBag({s})
    /\ db' = [db EXCEPT ![s.key] = [token_count |-> s.token_count,
                                    last_refill |-> s.last_refill]]
    /\ UNCHANGED <<clock, buckets, cells, pc, args, local, calls,
                   log, overlap, prev, tvars, bvars>>

\* A detached task runs save_rate_bucket, which fails: log_err() drops the error.
SaveErr(s) ==
    /\ s \in BagToSet(saves)
    /\ saves' = saves (-) SetToBag({s})
    /\ UNCHANGED <<clock, db, buckets, cells, pc, args, local, calls,
                   log, overlap, prev, tvars, bvars>>

\* The limiter is dropped and RateLimiter::new builds another one on the same
\* database and executor (as the test does); no call is in flight.
Restart ==
    /\ \A p \in Procs : pc[p] = "idle"
    /\ \E key \in Keys : cells[key] # <<>>
    /\ buckets' = [key \in Keys |-> 0]
    /\ cells' = [key \in Keys |-> <<>>]
    /\ log' = [key \in Keys |-> <<>>]
    /\ overlap' = [key \in Keys |-> FALSE]
    /\ prev' = [key \in Keys |-> Legacy(key[1], key[2])]
    /\ UNCHANGED <<clock, db, saves, pc, args, local, calls, tvars, bvars>>

\* The steps of the limiter, its calls made by the users us, at most maxCalls of
\* them, up to the instant maxNow.
Work(us, maxCalls, maxNow) ==
    \/ calls < maxCalls /\ Restart
    \/ \E p \in Procs, u \in us, k \in Kinds, dt \in 0..maxNow :
          calls < maxCalls /\ clock + dt <= maxNow /\ Start(p, u, k, dt)
    \/ \E p \in Procs : LoadOk(p)
    \/ \E p \in Procs : LoadErr(p)
    \/ \E p \in Procs : Entry(p)
    \/ \E p \in Procs : Lock(p)
    \/ \E p \in Procs : Allow(p)
    \/ \E s \in BagToSet(saves) : SaveOk(s)
    \/ \E s \in BagToSet(saves) : SaveErr(s)

\* One user calls, over the whole range of the clock.
Next == Work({1}, MaxCalls, MaxNow)

Spec == Init /\ [][Next]_vars

\* All users call, at one instant.
NextUsers == Work(Users, MaxCalls, 0)

SpecUsers == Init /\ [][NextUsers]_vars

\* A call that has started takes its next step as long as it can: load_bucket
\* returns, and the lock is granted once it is free.  Nothing makes a save
\* task run.
Fairness ==
    \A p \in Procs :
        /\ WF_vars(LoadOk(p) \/ LoadErr(p))
        /\ WF_vars(Entry(p))
        /\ WF_vars(Lock(p))
        /\ WF_vars(Allow(p))

NextLive == Work({1}, MaxLiveCalls, MaxNow)

SpecLive == Init /\ [][NextLive]_vars /\ Fairness

\* ------------------------------------------------- the credentials
\* The arguments create is called with: between them every argument takes two
\* values.
BaseInput ==
    [user_id |-> 7, github_user_login |-> "alice", is_staff |-> FALSE,
     billing_preferences |-> NoPreferences,
     has_llm_closed_beta_feature_flag |-> FALSE,
     has_llm_subscription |-> FALSE, plan |-> "Free"]

CreateInputs ==
    {BaseInput,
     [BaseInput EXCEPT !.user_id = 8, !.github_user_login = "bob",
                       !.is_staff = TRUE],
     [BaseInput EXCEPT !.billing_preferences = 0,
                       !.has_llm_closed_beta_feature_flag = TRUE],
     [BaseInput EXCEPT !.billing_preferences = 2500,
                       !.has_llm_subscription = TRUE, !.plan = "ZedPro"]}

\* The steps utc advances by: half a second, the leeway, the lifetime.
UtcSteps == {1, Leeway * TicksPerSec, LLM_TOKEN_LIFETIME * TicksPerSec}

\* A credential whose payload was changed after it was signed.
Tampered(token) ==
    [token EXCEPT !.payload.exp = @ + LLM_TOKEN_LIFETIME, !.payload.is_staff = TRUE]

\* Credentials other processes created at instant 0, with each secret.
Foreign == {Encode(NewClaims(BaseInput, 0, 0), k) : k \in Secrets}

\* The strings validate is called with: the credentials create returned, those
\* of other processes, all these tampered with, and garbage.
Presented ==
    {m.token : m \in minted}
    \cup Foreign
    \cup {Tampered(m.token) : m \in minted}
    \cup {Tampered(t) : t \in Foreign}
    \cup {Garbage}

\* The process starts with or without a secret provisioned.
TokenInit ==
    /\ utc = 0
    /\ secret \in {NoSecret, "k1"}
    /\ minted = {}
    /\ reply = NoReply
    /\ advances = 0

\* A call of create at Utc::now(); Uuid::new_v4() gives a jti no credential has.
CreateToken(in) ==
    /\ Cardinality(minted) < MaxMinted
    /\ LET r == Create(in, secret, utc, Cardinality(minted) + 1) IN
       /\ reply' = [op |-> "create", at |-> utc, input |-> in, result |-> r]
       /\ minted' = IF r.ok
                    THEN minted \cup {[token |-> r.token, at |-> utc, input |-> in]}
                    ELSE minted
    /\ UNCHANGED <<utc, secret, advances, lvars, bvars>>

\* A call of validate at Utc::now().
ValidateToken(token) ==
    /\ LET r == Validate(token, secret, utc) IN
       reply' = [op |-> "validate", at |-> utc, token |-> token,
                 decoded |-> r.decoded, result |-> r.result]
    /\ UNCHANGED <<utc, secret, minted, advances, lvars, bvars>>

\* Time passes between one call and the next.
Advance(dt) ==
    /\ advances < MaxAdvances
    /\ utc' = utc + dt
    /\ advances' = advances + 1
    /\ reply' = NoReply
    /\ UNCHANGED <<secret, minted, lvars, bvars>>

NextToken ==
    \/ \E in \in CreateInputs : CreateToken(in)
    \/ \E token \in Presented : ValidateToken(token)
    \/ \E dt \in UtcSteps : Advance(dt)

InitToken == LimiterInit /\ TokenInit /\ BucketIdle

SpecToken == InitToken /\ [][NextToken]_vars

\* ------------------------------------------------- a bucket on its own
\* RateBucket::new at instant 0, for a kind of any capacity from 1 up and any
\* refill duration that leaves a refill_time_per_token of one tick or more.
BucketInit ==
    /\ \E capacity \in 1..MaxCapacity, refill_duration \in 1..MaxRefillDuration :
          /\ DurationDiv(refill_duration, capacity) >= 1
          /\ bucket = RateBucketNew(capacity, refill_duration, 0)
    /\ bnow = 0
    /\ bcalls = 0
    /\ ballowed = 0
    /\ panicked = FALSE

\* bucket.allow(now): the first call at the instant the bucket was made, each
\* later one dt after the call before it.
BucketAllow(dt) ==
    /\ ~panicked
    /\ bcalls < MaxBucketCalls
    /\ bnow + dt <= MaxBucketNow
    /\ bcalls = 0 => dt = 0
    /\ bnow' = bnow + dt
    /\ bcalls' = bcalls + 1
    /\ IF RefillPanics(bucket, bnow + dt)
       THEN /\ panicked' = TRUE
            /\ UNCHANGED <<bucket, ballowed>>
       ELSE /\ bucket' = AllowBucket(bucket, bnow + dt)
            /\ ballowed' = ballowed + IF AllowResult(bucket, bnow + dt) THEN 1 ELSE 0
            /\ UNCHANGED panicked
    /\ UNCHANGED <<lvars, tvars>>

NextBucket == \E dt \in 0..MaxBucketNow : BucketAllow(dt)

InitBucket == LimiterInit /\ TokenIdle /\ BucketInit

SpecBucket == InitBucket /\ [][NextBucket]_vars

\* ------------------------------------------------------------------ claims
Limited == "rate limit exceeded"

\* All calls of a key's log so far were made at the instant of the first one.
SameInstant(key) == \A i \in DOMAIN log[key] : log[key][i].now = log[key][1].now

\* The calls of the key were made one after the other, the first one finding
\* neither a cached bucket nor a usable record, so that RateBucket::new made
\* the bucket, and all at the same instant.
FreshRun(key) ==
    /\ log[key] # <<>>
    /\ ~overlap[key]
    /\ cells[key][log[key][1].cell].origin = "new"
    /\ SameInstant(key)

\* C1: on a bucket made fresh for a kind of capacity C, of C+1 consecutive
\* checks at one instant the first C succeed and the (C+1)th is rate-limited.
C1_FreshBucketAllowsCapacity ==
    \A u \in Users, k \in Kinds :
        LET key == BucketKey(u, k) IN
        FreshRun(key) =>
            \A i \in DOMAIN log[key] :
                /\ i <= Capacity(k) => log[key][i].result = "ok"
                /\ i = Capacity(k) + 1 => log[key][i].result = Limited

C1_Witness ==
    \E u \in Users :
        LET key == BucketKey(u, "A") IN
        /\ FreshRun(key)
        /\ Len(log[key]) = Capacity("A") + 1
        /\ log[key][Capacity("A")].result = "ok"
        /\ log[key][Capacity("A") + 1].result = Limited

\* C2: the calls of one (user, kind) pair are never two at once between
\* bucket.lock() and drop(lock).
C2_OneCheckPerKeyUnderLock ==
    \A p, q \in Procs :
        (p # q /\ pc[p] = "allow" /\ pc[q] = "allow") => KeyOf(p) # KeyOf(q)

\* C3: all the calls of a limiter for one key run allow on one and the same
\* bucket: no call uses a bucket that replaced the one an earlier call used.
C3_OneBucketPerKey ==
    \A key \in Keys :
        \A i, j \in DOMAIN log[key] : log[key][i].cell = log[key][j].cell

\* C7: every bucket, made fresh or built from a saved record, holds between 0
\* and capacity tokens.
C7_TokenCountInRange ==
    \A key \in Keys :
        \A i \in DOMAIN cells[key] :
            /\ 0 <= cells[key][i].bucket.token_count
            /\ cells[key][i].bucket.token_count <= cells[key][i].bucket.capacity

\* A bucket built from a saved record was refilled up to its capacity, and a
\* bucket is empty.
C7_Witness ==
    /\ \E key \in Keys : \E i \in DOMAIN cells[key] :
          /\ cells[key][i].origin = "saved"
          /\ cells[key][i].bucket.last_refill > 0
          /\ \E j \in DOMAIN log[key] : log[key][j].cell = i /\ log[key][j].result = "ok"
    /\ \E key \in Keys : \E i \in DOMAIN cells[key] :
          cells[key][i].bucket.token_count = 0

\* The first call a limiter made for the key, in lock order.
First(key) == log[key][1]

KeyView(u, k) == <<buckets[BucketKey(u, k)], cells[BucketKey(u, k)], db[DbKey(u, k)]>>

\* The step is a step of the call p makes for the pair (u, k).
StepOfCall(p, u, k) ==
    /\ pc'[p] # pc[p]
    /\ IF pc[p] = "idle"
       THEN args'[p].user_id = u /\ args'[p].kind = k
       ELSE args[p].user_id = u /\ args[p].kind = k

\* The step is the run of a save task spawned by a call for the pair (u, k).
StepOfSave(u, k) ==
    \E s \in BagToSet(saves) :
        s.key = DbKey(u, k) /\ saves' = saves (-) SetToBag({s})

\* C5: a step of a check for one pair, or of the save it spawned, leaves the
\* cached bucket and the saved record of every other pair unchanged.
C5_OtherKeysUnchanged ==
    [][\A u \in Users, k \in Kinds :
          ((\E p \in Procs : StepOfCall(p, u, k)) \/ StepOfSave(u, k))
          => \A u2 \in Users, k2 \in Kinds :
                (u2 # u \/ k2 # k) => KeyView(u2, k2)' = KeyView(u2, k2)]_vars

\* One pair is exhausted while a pair of another user and a pair of another
\* kind still hold their full buckets.
C5_Witness ==
    \E u \in Users, u2 \in Users, k \in Kinds, k2 \in Kinds :
        /\ u2 # u /\ k2 # k
        /\ log[BucketKey(u, k)] # <<>>
        /\ log[BucketKey(u, k)][Len(log[BucketKey(u, k)])].result = Limited
        /\ db[DbKey(u, k)] # NoRecord
        /\ log[BucketKey(u2, k)] # <<>>
        /\ log[BucketKey(u2, k)][1].result = "ok"
        /\ db[DbKey(u2, k)] = NoRecord
        /\ buckets[BucketKey(u, k2)] = 0

\* C6: when a call leaves a bucket of capacity C and window W with no token
\* at instant t, the next call on that bucket, made at t + W/C, succeeds, and
\* the call after it at that same instant is rate-limited (the calls of the
\* key being made one after the other).
C6_OneTokenAfterOneInterval ==
    \A u \in Users, k \in Kinds :
        LET l == log[BucketKey(u, k)]
            wait == DurationDiv(RefillDuration(k), Capacity(k)) IN
        \A i \in DOMAIN l :
            (/\ ~overlap[BucketKey(u, k)]
             /\ i + 1 \in DOMAIN l
             /\ l[i].tokens = 0
             /\ l[i + 1].cell = l[i].cell
             /\ l[i + 1].now = l[i].now + wait)
            => /\ l[i + 1].result = "ok"
               /\ (/\ i + 2 \in DOMAIN l
                   /\ l[i + 2].cell = l[i].cell
                   /\ l[i + 2].now = l[i + 1].now)
                  => l[i + 2].result = Limited

\* The step is the end of a call of p (allow, spawn_detached, return).
Returns(p) == pc[p] = "allow" /\ pc'[p] = "idle"

\* The entry the call of p adds to the log when it returns.
Returned(p) == log'[KeyOf(p)][Len(log'[KeyOf(p)])]

\* The bucket the call of p holds.
Held(p) == cells[KeyOf(p)][local[p].bucket].bucket

\* The bucket RateBucket::new makes for the call of p.
FreshFor(p) ==
    RateBucketNew(Capacity(args[p].kind), RefillDuration(args[p].kind), args[p].now)

\* C8 as stated: a call whose load_bucket failed runs on a fresh bucket at
\* full capacity anchored at its now, and returns success.
C8_LoadErrorGivesFreshBucket ==
    [][\A p \in Procs :
          (Returns(p) /\ local[p].load = "error")
          => (Held(p) = FreshFor(p) /\ Returned(p).result = "ok")]_vars

\* C8 amended: no call returns anything but success or the rate-limit error,
\* and a call whose load_bucket failed, no other call for its key running
\* concurrently, runs on a fresh bucket at full capacity anchored at its now
\* and returns success.
C8_LoadErrorDegradesToFresh ==
    [][/\ \A key \in Keys : \A i \in DOMAIN log'[key] :
             log'[key][i].result \in {"ok", Limited}
       /\ \A p \in Procs :
             (Returns(p) /\ local[p].load = "error" /\ ~overlap[KeyOf(p)])
             => (Held(p) = FreshFor(p) /\ Returned(p).result = "ok")]_vars

\* A call whose load_bucket failed is about to run allow on the bucket it made.
C8_Witness ==
    \E p \in Procs :
        /\ pc[p] = "allow"
        /\ local[p].load = "error"
        /\ local[p].inserted
        /\ ~overlap[KeyOf(p)]
        /\ db[DbKey(args[p].user_id, args[p].kind)] # NoRecord

\* The step is the run of a save task that stored nothing.
SaveDropped == \E s \in BagToSet(saves) : saves' = saves (-) SetToBag({s}) /\ db' = db

\* C9: a call returns the rate-limit error exactly when allow found no token
\* after the refill, and a save that fails changes neither a bucket nor what
\* any call returned or will return.
C9_DeniedIffNoToken ==
    [][/\ \A p \in Procs :
             Returns(p) =>
                /\ Returned(p).result \in {"ok", Limited}
                /\ Returned(p).result = Limited
                     <=> Refill(Held(p), args[p].now).token_count = 0
       /\ SaveDropped => UNCHANGED <<buckets, cells, pc, args, local, log>>]_vars

\* A call was rate-limited and every save failed.
C9_Witness ==
    /\ \E key \in Keys : \E i \in DOMAIN log[key] : log[key][i].result = Limited
    /\ saves = EmptyBag
    /\ \A d \in DbKeys : db[d] = NoRecord

\* C10: every call that has started returns, whether or not a save task ever
\* runs, and a lock is held only by a call that is between bucket.lock() and
\* drop(lock), where it runs allow and nothing else: not by a call that waits
\* for load_bucket, nor by a save task.
C10_ReturnsWithoutWaiting ==
    /\ [](\A key \in Keys : \A i \in DOMAIN cells[key] :
            LET o == cells[key][i].owner IN
            o # 0 => (pc[o] = "allow" /\ KeyOf(o) = key /\ local[o].bucket = i))
    /\ \A p \in Procs : (pc[p] # "idle") ~> (pc[p] = "idle")

\* Two calls have returned and neither save has run.
C10_Witness ==
    /\ \A p \in Procs : pc[p] = "idle"
    /\ calls = MaxLiveCalls
    /\ BagCardinality(saves) = MaxLiveCalls
    /\ \A d \in DbKeys : db[d] = NoRecord


\* The credential was signed with the secret of this process and not changed
\* since.
CorrectlySigned(token) ==
    /\ token.form = "jwt"
    /\ token.signature = Hmac(secret, token.payload)

\* The last call was a validate of a correctly signed credential.
ValidatedSigned ==
    /\ reply.op = "validate"
    /\ secret # NoSecret
    /\ CorrectlySigned(reply.token)

\* C11 as stated: validate of a correctly signed credential at any instant
\* after its exp returns the Expired error.
C11_ExpiredAfterExpiry ==
    (ValidatedSigned /\ reply.at > reply.token.payload.exp * TicksPerSec)
    => reply.result.error = "Expired"

\* C11 amended: validate of a correctly signed credential returns the claims
\* or the Expired error, never JwtError, and returns Expired at every instant
\* more than the leeway of sixty seconds, in whole seconds, after its exp.
C11_ExpiredAfterLeeway ==
    ValidatedSigned =>
        /\ reply.result.error \in {"", "Expired"}
        /\ reply.at >= (reply.token.payload.exp + Leeway + 1) * TicksPerSec
           => reply.result.error = "Expired"

\* A credential this process created is found expired.
C11_Witness ==
    /\ ValidatedSigned
    /\ \E m \in minted : m.token = reply.token
    /\ reply.at >= (reply.token.payload.exp + Leeway + 1) * TicksPerSec
    /\ reply.result.error = "Expired"

\* C12: every credential created at instant now carries iat = now in whole
\* seconds and exp = iat + 3600.
C12_LifetimeIsOneHour ==
    \A m \in minted :
        /\ m.token.payload.iat * TicksPerSec <= m.at
        /\ m.at < (m.token.payload.iat + 1) * TicksPerSec
        /\ m.token.payload.exp - m.token.payload.iat = 3600

\* A credential was created half a second past a whole second.
C12_Witness ==
    \E m \in minted :
        /\ m.at > 0
        /\ m.at % TicksPerSec # 0
        /\ m.token.payload.exp = m.token.payload.iat + 3600

\* C13: with no secret provisioned, create returns an error and no credential,
\* and validate returns the Other error for every string, without calling
\* decode.
C13_NoSecretIsConfigurationError ==
    secret = NoSecret =>
        /\ minted = {}
        /\ reply.op = "create" => ~reply.result.ok
        /\ reply.op = "validate" =>
              /\ reply.result.error = "Other"
              /\ ~reply.decoded

\* With no secret provisioned, a credential that is valid under the secret of
\* the other processes was presented.
C13_Witness ==
    /\ secret = NoSecret
    /\ reply.op = "validate"
    /\ reply.token = Encode(NewClaims(BaseInput, 0, 0), "k1")
    /\ reply.at = 0
    /\ reply.result.error = "Other"

\* The last call was a validate of the credential m, at the instant create
\* returned it.
ValidatedAtOnce(m) ==
    /\ reply.op = "validate"
    /\ reply.token = m.token
    /\ reply.at = m.at

\* C14: validate of a credential at the instant create returned it gives the
\* claims create was called with, max_monthly_spend_in_cents being the
\* ceiling of the billing preferences, or the default when there are none.
C14_RoundTrip ==
    \A m \in minted :
        ValidatedAtOnce(m) =>
            /\ reply.result.error = ""
            /\ reply.result.claims.user_id = m.input.user_id
            /\ reply.result.claims.github_user_login = m.input.github_user_login
            /\ reply.result.claims.is_staff = m.input.is_staff
            /\ reply.result.claims.has_llm_closed_beta_feature_flag
                  = m.input.has_llm_closed_beta_feature_flag
            /\ reply.result.claims.has_llm_subscription = m.input.has_llm_subscription
            /\ reply.result.claims.plan = m.input.plan
            /\ reply.result.claims.max_monthly_spend_in_cents
                  = IF m.input.billing_preferences = NoPreferences
                    THEN 1000
                    ELSE m.input.billing_preferences

\* A credential created with a ceiling of 2500 cents was validated at once.
C14_Witness ==
    \E m \in minted :
        /\ ValidatedAtOnce(m)
        /\ m.input.billing_preferences = 2500
        /\ reply.result.error = ""
        /\ reply.result.claims.max_monthly_spend_in_cents = 2500
        /\ reply.result.claims.plan = "ZedPro"

\* C15: a bucket built from a saved record has the capacity of its kind and
\* the refill_time_per_token of a bucket made fresh for the kind,
\* refill_duration / capacity.
C15_HydratedLikeFresh ==
    \A u \in Users, k \in Kinds :
        \A i \in DOMAIN cells[BucketKey(u, k)] :
            LET c == cells[BucketKey(u, k)][i] IN
            c.origin = "saved" =>
                /\ c.bucket.capacity = Capacity(k)
                /\ c.bucket.refill_time_per_token
                      = RateBucketNew(Capacity(k), RefillDuration(k), 0).refill_time_per_token

\* The step is the replacement of the limiter by a new one.
NewLimiter == \E key \in Keys : Len(cells'[key]) < Len(cells[key])

\* C16: within one limiter, once the cache holds a bucket for a key it holds
\* that same bucket in every later state.
C16_CacheEntryNeverReplaced ==
    [][~NewLimiter =>
          \A key \in Keys : buckets[key] # 0 => buckets'[key] = buckets[key]]_vars

\* The pair a bucket holds.
PairOf(b) == [token_count |-> b.token_count, last_refill |-> b.last_refill]

\* C17: every check, allowed or denied, spawns exactly one save, of the pair
\* its bucket holds right after allow, and nothing else spawns a save; the
\* record of a key changes only by one pending save of the key being stored
\* whole.
C17_OneWriteOfHeldPairPerCheck ==
    [][/\ \A p \in Procs :
             Returns(p) =>
                 saves' = saves (+) SetToBag(
                     {[key |-> DbKey(args[p].user_id, args[p].kind),
                       token_count |-> cells'[KeyOf(p)][local[p].bucket].bucket.token_count,
                       last_refill |-> cells'[KeyOf(p)][local[p].bucket].bucket.last_refill]})
       /\ (\A p \in Procs : ~Returns(p)) =>
             \A s \in BagToSet(saves') : CopiesIn(s, saves') <= CopiesIn(s, saves)
       /\ \A d \in DbKeys :
             db'[d] # db[d] =>
                 \E s \in BagToSet(saves) :
                     /\ s.key = d
                     /\ db'[d] = [token_count |-> s.token_count,
                                  last_refill |-> s.last_refill]
                     /\ saves' = saves (-) SetToBag({s})]_vars

\* A check was denied, every save has run, out of order: the record of the
\* key is a pair its bucket held earlier, not the one it holds.
C17_Witness ==
    /\ saves = EmptyBag
    /\ \E u \in Users, k \in Kinds :
          /\ \E i \in DOMAIN log[BucketKey(u, k)] :
                log[BucketKey(u, k)][i].result = Limited
          /\ buckets[BucketKey(u, k)] # 0
          /\ db[DbKey(u, k)] # NoRecord
          /\ db[DbKey(u, k)]
                # PairOf(cells[BucketKey(u, k)][buckets[BucketKey(u, k)]].bucket)

\* The step is a call of allow on the bucket run on its own.
AllowStep == bcalls' = bcalls + 1

\* now - last_refill of the call the step makes.
Elapsed == bnow' - bucket.last_refill

\* C18: a call of allow with elapsed >= refill_time_per_token refills the
\* bucket with floor(elapsed / refill_time_per_token) tokens, the division
\* being made on the durations themselves, up to the capacity, before it
\* takes its token, for every capacity and refill duration.
C18_RefillAddsExactFloor ==
    [][(AllowStep /\ Elapsed >= bucket.refill_time_per_token) =>
          /\ ~panicked'
          /\ bucket'.last_refill = bnow'
          /\ bucket'.token_count
                = Min(bucket.token_count + (Elapsed \div bucket.refill_time_per_token),
                      bucket.capacity) - 1]_vars

\* C19: a call of allow with elapsed < refill_time_per_token leaves
\* last_refill alone and adds no token, so that a denied call leaves the
\* bucket as it was; and a call made exactly refill_time_per_token after
\* last_refill returns true.
C19_NoRefillLeavesBucketAlone ==
    [][AllowStep =>
          /\ Elapsed < bucket.refill_time_per_token =>
                /\ ~panicked'
                /\ bucket'.last_refill = bucket.last_refill
                /\ bucket'.token_count <= bucket.token_count
                /\ ballowed' = ballowed => bucket' = bucket
          /\ Elapsed = bucket.refill_time_per_token =>
                /\ ~panicked'
                /\ ballowed' = ballowed + 1]_vars

\* C20: of the calls made on a bucket from the instant it was made up to the
\* instant of the last one, at most capacity + floor of the time passed over
\* refill_time_per_token return true.
C20_RateBound ==
    ballowed <= bucket.capacity + (bnow \div bucket.refill_time_per_token)
====
